---- MODULE Spec2Model ----
(***************************************************************************)
(* Model of nekro_agent/services/agents/chat_agent.py: the agent loop      *)
(* agent_run / agent_exec_result.  One logical exchange is a call stack of *)
(* agent_run frames; the collaborators (model backend, resolver, sandbox,  *)
(* channel transport, prompt persistence) answer nondeterministically.     *)
(***************************************************************************)
EXTENDS Integers, Sequences, FiniteSets, TLC

\* ------------------------------------------------------------------ bounds
\* Largest config.AI_SCRIPT_MAX_RETRY_TIMES explored (0..MaxScriptRetryTimes).
MaxScriptRetryTimes == 2
\* Largest config.AI_CHAT_LLM_API_MAX_RETRIES explored (0..MaxApiRetries).
MaxApiRetries == 2
\* Longest ret_list a resolved response carries.
MaxActions == 2
\* Most sandbox failures in one exchange before the scripts of a retry
\* invocation stop failing (the scripts of the first invocation's own
\* response can always fail).
MaxFailures == 2
\* Most rows of the chat-message table, and largest
\* config.AI_CHAT_CONTEXT_MAX_LENGTH explored (0..MaxTurns).
MaxTurns == 3
\* Largest send_timestamp (whole seconds), and largest
\* config.AI_CHAT_CONTEXT_EXPIRE_SECONDS explored (0..MaxTime).
MaxTime == 2
\* Most changes of task the event loop makes between two concurrent calls.
MaxSwitches == 2
\* Longest ret_list of a response when two calls run concurrently.
MaxConcurrentActions == 1

\* ------------------------------------------------------------- value sets
\* Values os.urandom(4).hex() can return (two of the 2^32).
Tokens == {"0a0a0a0a", "1b1b1b1b"}
\* ChatScene.Store.one_time_code default (line 51); also what a response
\* that embeds no token echoes.
NoToken == ""
ChatKeys == {"group_1"}
\* chat_key values of the rows of the chat-message table.
StoredChatKeys == ChatKeys \cup {"private_2"}
\* DBChatMessage rows: the columns the query of lines 83-90 reads.
Rows == [chat_key : StoredChatKeys, send_timestamp : 0..MaxTime]
Contents == {"Hello"}
ResponseTypes == {"TEXT", "SCRIPT"}
Actions == [type : ResponseTypes, content : Contents]

RECURSIVE SeqsUpTo(_, _)
SeqsUpTo(S, n) ==
    IF n = 0 THEN {<<>>}
    ELSE LET shorter == SeqsUpTo(S, n - 1)
         IN  shorter \cup {Append(s, x) : s \in {t \in shorter : Len(t) = n - 1}, x \in S}

RetLists == SeqsUpTo(Actions, MaxActions)

\* A raw model response: the token it echoes, whether it follows the reply
\* grammar, and the actions it spells out.
NoResponse == [echo |-> NoToken, wellFormed |-> FALSE, ret_list |-> <<>>]
ModelResponses ==
    [echo : Tokens \cup {NoToken}, wellFormed : {TRUE}, ret_list : RetLists]
    \cup [echo : Tokens \cup {NoToken}, wellFormed : {FALSE}, ret_list : {<<>>}]

\* limited_run_code results: output text, and whether it ends with
\* CODE_RUN_ERROR_FLAG.
SandboxResults ==
    { [flagged |-> FALSE, text |-> "done"],
      [flagged |-> TRUE,  text |-> ""],
      [flagged |-> TRUE,  text |-> "Traceback"] }

VARIABLES
    config,        \* the fields of nekro_agent.core.config the file reads
    chat_message,  \* the incoming message (its chat_key)
    history,       \* the chat-message table: history[i] is row i
    clock,         \* time.time() at line 81, in half seconds
    recent_chat_messages,  \* the context window of lines 82-91 (row numbers)
    stack,         \* call stack of agent_run frames, top last
    heap,          \* list objects: heap[r] is the list with reference r
    sends,         \* calls made to the channel transport, in order
    runs,          \* calls made to the sandbox, in order
    result,        \* how the top-level agent_run ended ("running" until then)
    invocations,   \* history: one record per agent_run entered
    failures,      \* history: one record per failed script action
    trace,         \* history: one record per action agent_exec_result began
    raised,        \* history: the frame that raised, as it was then
    suspended      \* the other tasks running agent_run, each as it was when
                   \* the event loop last left it at an await

\* What no statement of the running task changes.
env == <<config, chat_message, history, clock, suspended>>
vars == <<config, chat_message, history, clock, recent_chat_messages, stack, heap, sends, runs, result,
          invocations, failures, trace, raised, suspended>>

Top == stack[Len(stack)]
SetTop(f) == [stack EXCEPT ![Len(stack)] = f]
Pop == SubSeq(stack, 1, Len(stack) - 1)

\* ------------------------------------------------- the channel transport
\* chat_service.send_agent_message(chat_key, text, record=...) and
\* chat_service.send_message(chat_key, text).
AgentMessage(chat_key, text, record) ==
    [fn |-> "send_agent_message", chat_key |-> chat_key, text |-> text, record |-> record]
PlainMessage(chat_key, text) ==
    [fn |-> "send_message", chat_key |-> chat_key, text |-> text, record |-> "none"]

\* A debug notification, sent only when config.DEBUG_IN_CHAT is set
\* (lines 68-69, 184-185, 204-208).
DebugSend(log, text) ==
    IF config.DEBUG_IN_CHAT THEN Append(log, PlainMessage(chat_message.chat_key, text))
    ELSE log

\* ------------------------------------------------------ the context window
\* int(x) for x = h / 2: truncation toward zero.
IntOfHalves(h) == IF h >= 0 THEN h \div 2 ELSE -((-h) \div 2)

\* Line 81: int(time.time() - config.AI_CHAT_CONTEXT_EXPIRE_SECONDS)
StaTimestamp == IntOfHalves(clock - 2 * config.AI_CHAT_CONTEXT_EXPIRE_SECONDS)

\* Lines 84-87: the rows the filter keeps.
Filtered ==
    {i \in DOMAIN history :
        /\ history[i].chat_key = chat_message.chat_key
        /\ history[i].send_timestamp >= StaTimestamp}

Range(q) == {q[i] : i \in DOMAIN q}

\* The query without its limit: every filtered row, newest first.
IsQueryResultUnlimited(q, n) ==
    LET rows == Filtered
    IN  /\ \A i \in DOMAIN q : q[i] \in rows
        /\ Len(q) = Cardinality(rows)
        /\ \A i, j \in DOMAIN q : i < j =>
              /\ q[i] # q[j]
              /\ history[q[i]].send_timestamp >= history[q[j]].send_timestamp

\* Lines 88-90: order_by(send_timestamp.desc()).limit(n).all(): q is the
\* first n filtered rows, newest first; rows of equal timestamp come in any
\* order.
IsQueryResult(q, n) ==
    LET rows == Filtered
    IN  /\ \A i \in DOMAIN q : q[i] \in rows
        /\ Len(q) = IF n < Cardinality(rows) THEN n ELSE Cardinality(rows)
        /\ \A i, j \in DOMAIN q : i < j =>
              /\ q[i] # q[j]
              /\ history[q[i]].send_timestamp >= history[q[j]].send_timestamp
        /\ \A r \in rows \ Range(q) : \A i \in DOMAIN q :
              history[r].send_timestamp <= history[q[i]].send_timestamp

\* Lines 83-90: the lists the query can return.
QueryResults(n) ==
    {q \in SeqsUpTo(Filtered, Cardinality(Filtered)) : IsQueryResult(q, n)}

\* The list is left in the order the query returned it.
NotReversed(q) == q

\* Line 91: q[::-1]
Reversed(q) == [i \in 1..Len(q) |-> q[Len(q) - i + 1]]

\* Line 91: q[-n:] for n >= 0 (q[-0:] is q[0:], the whole list).
LastN(q, n) ==
    IF n = 0 \/ n >= Len(q) THEN q ELSE SubSeq(q, Len(q) - n + 1, Len(q))

\* Lines 82-91: the values recent_chat_messages can get.
ContextWindows ==
    {LastN(Reversed(q), config.AI_CHAT_CONTEXT_MAX_LENGTH) :
        q \in QueryResults(config.AI_CHAT_CONTEXT_MAX_LENGTH)}

\* Lines 81-93 alone: the context window agent_run builds on entry.
BuildContext ==
    /\ stack = <<>> /\ result = "context"
    /\ recent_chat_messages' \in ContextWindows
    /\ result' = "built"
    /\ UNCHANGED <<env, stack, heap, sends, runs, invocations, failures, trace, raised>>

\* -------------------------------------------------------------- agent_run
\* A call agent_run(chat_message, addition_prompt_message, retry_depth)
\* that has not executed its first statement yet.  ref = 0 is None.
NewFrame(ref, depth) ==
    [ inv |-> 0, retry_depth |-> depth, addition_prompt_message |-> ref,
      one_time_code |-> NoToken, store_code |-> NoToken, prompt |-> <<>>,
      attempts |-> 0, pc |-> "enter", mr |-> NoResponse, ret_list |-> <<>>,
      idx |-> 0 ]

\* `if not addition_prompt_message`: None or an empty list.
IsFalsy(ref) == ref = 0 \/ heap[ref] = <<>>

\* No random bytes are drawn: the code is the empty string.
UrandomHexEmpty == {NoToken}

\* os.urandom(4).hex()
UrandomHex == Tokens

\* The store is never set and keeps the default of ChatScene.Store.
StoreCodeDefault(one_time_code) == NoToken

\* scene.store.set("one_time_code", one_time_code)
StoreCode(one_time_code) == one_time_code

\* Every call gets the same list object: the first one ever created.
SharedDefaultList(h) == 1

\* Line 65: `[]` creates a new list object; its reference.
NewList(h) == Len(h) + 1

\* Lines 61-131: draw the one-time code, replace a falsy addition list by a
\* new list, build the scene and the prompt (which unpacks the addition list
\* as it is now).
Enter ==
    /\ stack # <<>> /\ Top.pc = "enter"
    /\ \E code \in UrandomHex :
         LET fresh == IsFalsy(Top.addition_prompt_message)
             ref   == IF fresh THEN NewList(heap) ELSE Top.addition_prompt_message
             h     == IF fresh THEN Append(heap, <<>>) ELSE heap
             n     == Len(invocations) + 1
             par   == IF Len(stack) > 1 THEN stack[Len(stack) - 1] ELSE NewFrame(0, 0)
         IN  /\ heap' = h
             /\ stack' = SetTop([Top EXCEPT !.inv = n,
                                            !.addition_prompt_message = ref,
                                            !.one_time_code = code,
                                            !.store_code = StoreCode(code),
                                            !.prompt = h[ref],
                                            !.pc = "run"])
             /\ invocations' = Append(invocations,
                    [ retry_depth |-> Top.retry_depth, one_time_code |-> code,
                      parent |-> par.inv, parent_idx |-> par.idx,
                      list |-> ref, prompt |-> h[ref], echo |-> NoToken,
                      ret_list |-> <<>> ])
    /\ sends' = DebugSend(sends, "[Debug] thinking")
    /\ recent_chat_messages' \in ContextWindows
    /\ UNCHANGED <<env, runs, result, failures, trace, raised>>

\* The exception is caught where it is raised and the invocation goes on.
UnwoundNowhere(frames) == frames

\* agent_exec_result catches what the agent_run it awaits raises and
\* returns: the caller's loop goes on with its next action.
UnwoundToCaller(frames) ==
    IF Len(frames) <= 1 THEN <<>>
    ELSE [SubSeq(frames, 1, Len(frames) - 1) EXCEPT
             ![Len(frames) - 1] = [@ EXCEPT !.pc = "exec", !.idx = @ + 1]]

\* No statement of agent_run or agent_exec_result catches what an awaited
\* agent_exec_result or agent_run raises (lines 164-165, 209): an exception
\* leaves every frame of the call stack.
Unwound(frames) == <<>>

\* Off by one: the loop runs one round short.
MayAttemptShort(attempts) == attempts < config.AI_CHAT_LLM_API_MAX_RETRIES - 1

\* Off by one the other way: the loop runs one round more.
MayAttemptInclusive(attempts) == attempts <= config.AI_CHAT_LLM_API_MAX_RETRIES

\* Line 134: `for _ in range(config.AI_CHAT_LLM_API_MAX_RETRIES)` has
\* another round after `attempts` rounds.
MayAttempt(attempts) == attempts < config.AI_CHAT_LLM_API_MAX_RETRIES

Calling == stack # <<>> /\ Top.pc = "run"

\* Lines 134-140: one attempt of scene.run() raises; it is logged and the
\* loop goes on.
ModelCallFails ==
    /\ Calling /\ MayAttempt(Top.attempts)
    /\ stack' = SetTop([Top EXCEPT !.attempts = @ + 1])
    /\ UNCHANGED <<env, recent_chat_messages, heap, sends, runs, result, invocations, failures, trace, raised>>

\* Line 142: the apology sent when the model calls are used up.
Apology == AgentMessage(chat_message.chat_key, "LLM API apology", "default")

\* Lines 141-143: the loop ran out; apologise, then raise SceneRuntimeError.
ModelCallExhausted ==
    /\ Calling /\ ~MayAttempt(Top.attempts)
    /\ sends' = Append(sends, Apology)
    /\ stack' = Unwound(stack)
    /\ result' = "SceneRuntimeError"
    /\ raised' = <<Top>>
    /\ UNCHANGED <<env, recent_chat_messages, heap, runs, invocations, failures, trace>>

\* ChatResponseResolver.resolve accepts a response that follows the grammar
\* and echoes the scene store's one-time code.
ResolveAccepts(mr, store_code) == mr.wellFormed /\ mr.echo = store_code

\* Lines 137-138, 145-151: scene.run() returns a response the resolver
\* rejects; ResolveError is raised.
ResponseRejected ==
    /\ Calling /\ MayAttempt(Top.attempts)
    /\ \E mr \in ModelResponses :
         ~ResolveAccepts(mr, Top.store_code)
    /\ raised' = <<Top>>
    /\ stack' = Unwound(stack)
    /\ result' = "ResolveError"
    /\ UNCHANGED <<env, recent_chat_messages, heap, sends, runs, invocations, failures, trace>>

\* Lines 137-138, 145-161: scene.run() returns a response that resolves,
\* and one of the two mr.save calls raises.
SaveFails ==
    /\ Calling /\ MayAttempt(Top.attempts)
    /\ \E mr \in ModelResponses :
         /\ ResolveAccepts(mr, Top.store_code)
         /\ raised' = << [Top EXCEPT !.mr = mr, !.ret_list = mr.ret_list] >>
    /\ stack' = Unwound(stack)
    /\ result' = "OSError"
    /\ UNCHANGED <<env, recent_chat_messages, heap, sends, runs, invocations, failures, trace>>

\* Lines 137-138, 145-164: scene.run() returns a response that resolves,
\* both mr.save calls succeed and the loop over ret_list starts.  The loop
\* variable `_` of line 134 is not read again.
ResponseResolved ==
    /\ Calling /\ MayAttempt(Top.attempts)
    /\ \E mr \in ModelResponses :
         /\ ResolveAccepts(mr, Top.store_code)
         /\ stack' = SetTop([Top EXCEPT !.attempts = 0, !.mr = mr,
                                        !.ret_list = mr.ret_list,
                                        !.pc = "exec", !.idx = 1])
         /\ invocations' = [invocations EXCEPT ![Top.inv].ret_list = mr.ret_list,
                                                ![Top.inv].echo = mr.echo]
    /\ UNCHANGED <<env, recent_chat_messages, heap, sends, runs, result, failures, trace, raised>>

\* ------------------------------------------------------ agent_exec_result
\* The list is walked from its last element to its first.
RetDataReversed(f) == f.ret_list[Len(f.ret_list) - f.idx + 1]

\* Line 164: the loop variable ret_data of `for ret_data in ret_list`.
RetData(f) == f.ret_list[f.idx]

Executing == stack # <<>> /\ Top.pc = "exec" /\ Top.idx <= Len(Top.ret_list)

Began(f) == [inv |-> f.inv, idx |-> f.idx, action |-> RetData(f)]

\* The text is sent without record=True.
TextSendUnrecorded(chat_key, ret_content) == AgentMessage(chat_key, ret_content, "default")

\* Line 179: send_agent_message(chat_message.chat_key, ret_content, record=True)
TextSend(chat_key, ret_content) == AgentMessage(chat_key, ret_content, "True")

\* Lines 177-180: a TEXT action.
ExecText ==
    /\ Executing /\ RetData(Top).type = "TEXT"
    /\ sends' = Append(sends, TextSend(chat_message.chat_key, RetData(Top).content))
    /\ stack' = SetTop([Top EXCEPT !.idx = @ + 1])
    /\ trace' = Append(trace, Began(Top))
    /\ UNCHANGED <<env, recent_chat_messages, heap, runs, result, invocations, failures, raised>>

\* Line 186: limited_run_code(ret_content, from_chat_key=chat_message.chat_key)
SandboxCall(f) == [script |-> RetData(f).content, from_chat_key |-> chat_message.chat_key]

\* Lines 182-187: a SCRIPT action whose result does not end with the error flag.
ScriptSucceeds ==
    /\ Executing /\ RetData(Top).type = "SCRIPT"
    /\ \E r \in SandboxResults : ~r.flagged
    /\ sends' = DebugSend(sends, "[Debug] running script")
    /\ runs' = Append(runs, SandboxCall(Top))
    /\ stack' = SetTop([Top EXCEPT !.idx = @ + 1])
    /\ trace' = Append(trace, Began(Top))
    /\ UNCHANGED <<env, recent_chat_messages, heap, result, invocations, failures, raised>>

\* Line 189: AiMessage(f"script:>\n{ret_content}")
AiMessage(ret_content) == [role |-> "assistant", body |-> ret_content, hint |-> "script"]

\* The feedback asks for another try whenever the failure is retried.
AsksToTryAgainWhileRetried(retry_depth) == retry_depth < config.AI_SCRIPT_MAX_RETRY_TIMES

\* Line 190: the feedback asks for another try.
AsksToTryAgain(retry_depth) == retry_depth < config.AI_SCRIPT_MAX_RETRY_TIMES - 1

\* Lines 191-201: UserMessage(f"Code run error: {err_msg or 'No error message'}\n...")
UserMessage(err_msg, retry_depth) ==
    [ role |-> "user",
      body |-> IF err_msg = "" THEN "No error message" ELSE err_msg,
      hint |-> IF AsksToTryAgain(retry_depth) THEN "try again" ELSE "give up" ]

\* The error feedback is appended before the failing script.
FailureEntriesSwapped(ret_content, err_msg, retry_depth) ==
    << UserMessage(err_msg, retry_depth), AiMessage(ret_content) >>

\* Lines 189-201: what a failed script appends to the addition list.
FailureEntries(ret_content, err_msg, retry_depth) ==
    << AiMessage(ret_content), UserMessage(err_msg, retry_depth) >>

\* Off by one: retries while retry_depth <= maximum.
RetryAllowedInclusive(retry_depth) == retry_depth <= config.AI_SCRIPT_MAX_RETRY_TIMES

\* Off by one the other way: retries while retry_depth + 1 < maximum.
RetryAllowedEarlyStop(retry_depth) == retry_depth + 1 < config.AI_SCRIPT_MAX_RETRY_TIMES

\* Line 203: the failure is retried.
RetryAllowed(retry_depth) == retry_depth < config.AI_SCRIPT_MAX_RETRY_TIMES

\* The recursive call passes no addition list.
ChildListNone(ref) == 0

\* The recursive call passes its own depth on.
ChildDepthSame(retry_depth) == retry_depth

\* Line 209: the arguments of the recursive agent_run.
ChildDepth(retry_depth) == retry_depth + 1
ChildList(ref) == ref

FailureRecord(f, err_msg, retried) ==
    [ inv |-> f.inv, idx |-> f.idx, retry_depth |-> f.retry_depth,
      script |-> RetData(f).content, err_msg |-> err_msg,
      list |-> f.addition_prompt_message,
      before |-> heap[f.addition_prompt_message], retried |-> retried,
      invocations |-> Len(invocations), sends |-> Len(sends) ]

\* The sandbox may report a failure: always for a script of the first
\* invocation's response, and for a script of a retry invocation while
\* fewer than MaxFailures scripts have failed.
CanFail == Len(stack) = 1 \/ Len(failures) < MaxFailures

\* Lines 186-209: a SCRIPT action fails and agent_run is called again.
ScriptFailsRetry ==
    /\ Executing /\ RetData(Top).type = "SCRIPT" /\ CanFail
    /\ RetryAllowed(Top.retry_depth)
    /\ \E r \in {x \in SandboxResults : x.flagged} :
         LET ref == Top.addition_prompt_message
         IN  /\ heap' = [heap EXCEPT ![ref] =
                    @ \o FailureEntries(RetData(Top).content, r.text, Top.retry_depth)]
             /\ stack' = Append(SetTop([Top EXCEPT !.pc = "await"]),
                                NewFrame(ChildList(ref), ChildDepth(Top.retry_depth)))
             /\ failures' = Append(failures, FailureRecord(Top, r.text, TRUE))
    /\ runs' = Append(runs, SandboxCall(Top))
    /\ sends' = DebugSend(DebugSend(sends, "[Debug] running script"), "[Debug] retrying")
    /\ trace' = Append(trace, Began(Top))
    /\ UNCHANGED <<env, recent_chat_messages, result, invocations, raised>>

\* Line 211: send_message(chat_message.chat_key, "...达到最大重试次数，停止重试。")
TerminalNotice == PlainMessage(chat_message.chat_key, "max retries reached")

\* Lines 186-202, 210-212: a SCRIPT action fails and the retries are used up.
ScriptFailsGiveUp ==
    /\ Executing /\ RetData(Top).type = "SCRIPT" /\ CanFail
    /\ ~RetryAllowed(Top.retry_depth)
    /\ \E r \in {x \in SandboxResults : x.flagged} :
         LET ref == Top.addition_prompt_message
         IN  /\ heap' = [heap EXCEPT ![ref] =
                    @ \o FailureEntries(RetData(Top).content, r.text, Top.retry_depth)]
             /\ failures' = Append(failures, FailureRecord(Top, r.text, FALSE))
    /\ runs' = Append(runs, SandboxCall(Top))
    /\ sends' = Append(DebugSend(sends, "[Debug] running script"), TerminalNotice)
    /\ stack' = SetTop([Top EXCEPT !.idx = @ + 1])
    /\ trace' = Append(trace, Began(Top))
    /\ UNCHANGED <<env, recent_chat_messages, result, invocations, raised>>

\* The chain that has returned used up one level of its caller's depth.
ResumeDeeper(f) == [f EXCEPT !.pc = "exec", !.idx = @ + 1, !.retry_depth = @ + 1]

\* Line 165: the caller's loop goes on after the awaited agent_exec_result.
Resume(f) == [f EXCEPT !.pc = "exec", !.idx = @ + 1]

\* Lines 164-167: the loop over ret_list is over and agent_run returns; the
\* agent_exec_result that awaited it returns too (lines 209, 212).
Return ==
    /\ stack # <<>> /\ Top.pc = "exec" /\ Top.idx > Len(Top.ret_list)
    /\ IF Len(stack) = 1
       THEN /\ stack' = <<>>
            /\ result' = "returned"
       ELSE /\ stack' = [Pop EXCEPT ![Len(stack) - 1] = Resume(@)]
            /\ result' = result
    /\ UNCHANGED <<env, recent_chat_messages, heap, sends, runs, invocations, failures, trace, raised>>

\* ------------------------------------------------------------------- spec
Configs ==
    [ AI_SCRIPT_MAX_RETRY_TIMES : 0..MaxScriptRetryTimes,
      AI_CHAT_LLM_API_MAX_RETRIES : 0..MaxApiRetries,
      DEBUG_IN_CHAT : BOOLEAN,
      AI_CHAT_CONTEXT_EXPIRE_SECONDS : {MaxTime},
      AI_CHAT_CONTEXT_MAX_LENGTH : {MaxTurns} ]

\* A handler calls agent_run(chat_message): no addition list, depth 0.  The
\* chat-message table is empty here; ContextSpec explores its contents.
Init ==
    /\ config \in Configs
    /\ chat_message \in [chat_key : ChatKeys]
    /\ history = <<>>
    /\ clock = 2 * MaxTime
    /\ recent_chat_messages = <<>>
    /\ stack = << NewFrame(0, 0) >>
    /\ heap = <<>>
    /\ sends = <<>>
    /\ runs = <<>>
    /\ result = "running"
    /\ invocations = <<>>
    /\ failures = <<>>
    /\ trace = <<>>
    /\ raised = <<>>
    /\ suspended = <<>>

Next ==
    \/ Enter
    \/ ModelCallFails
    \/ ModelCallExhausted
    \/ ResponseRejected
    \/ SaveFails
    \/ ResponseResolved
    \/ ExecText
    \/ ScriptSucceeds
    \/ ScriptFailsRetry
    \/ ScriptFailsGiveUp
    \/ Return

Spec == Init /\ [][Next]_vars

\* Every collaborator call returns (or raises) and the event loop resumes the
\* coroutine that awaited it: a step that can be taken is taken.
FairSpec == Spec /\ WF_vars(Next)

\* The context window as a function of the table, the clock and the
\* configuration: lines 81-93 applied to every input within the bounds.
ContextConfigs ==
    [ AI_SCRIPT_MAX_RETRY_TIMES : {0},
      AI_CHAT_LLM_API_MAX_RETRIES : {0},
      DEBUG_IN_CHAT : {FALSE},
      AI_CHAT_CONTEXT_EXPIRE_SECONDS : 0..MaxTime,
      AI_CHAT_CONTEXT_MAX_LENGTH : 0..MaxTurns ]

ContextInit ==
    /\ config \in ContextConfigs
    /\ chat_message \in [chat_key : ChatKeys]
    /\ history \in SeqsUpTo(Rows, MaxTurns)
    /\ clock \in 0..(2 * MaxTime + 1)
    /\ recent_chat_messages = <<>>
    /\ stack = <<>>
    /\ heap = <<>>
    /\ sends = <<>>
    /\ runs = <<>>
    /\ result = "context"
    /\ invocations = <<>>
    /\ failures = <<>>
    /\ trace = <<>>
    /\ raised = <<>>
    /\ suspended = <<>>

ContextNext == BuildContext

ContextSpec == ContextInit /\ [][ContextNext]_vars

\* Two handlers call agent_run at the same time, for the same channel or for
\* two channels, each without an addition list.  The event loop runs one
\* task at a time and can change task where the running one awaits (lines
\* 69, 137, 142, 179, 185, 186, 205, 209, 211); here it can change task
\* between any two steps, which covers those.
ConcurrentConfigs ==
    [ AI_SCRIPT_MAX_RETRY_TIMES : {1},
      AI_CHAT_LLM_API_MAX_RETRIES : {1},
      DEBUG_IN_CHAT : {FALSE},
      AI_CHAT_CONTEXT_EXPIRE_SECONDS : {MaxTime},
      AI_CHAT_CONTEXT_MAX_LENGTH : {MaxTurns} ]

\* The event loop leaves the running task and resumes the suspended one.
Switch ==
    /\ suspended # <<>>
    /\ suspended[1].stack # <<>>
    /\ suspended[1].switches < MaxSwitches
    /\ suspended' = << [ stack |-> stack, chat_message |-> chat_message,
                         result |-> result,
                         switches |-> suspended[1].switches + 1 ] >>
    /\ stack' = suspended[1].stack
    /\ chat_message' = suspended[1].chat_message
    /\ result' = suspended[1].result
    /\ UNCHANGED <<config, history, clock, recent_chat_messages, heap, sends, runs,
                   invocations, failures, trace, raised>>

ConcurrentInit ==
    /\ config \in ConcurrentConfigs
    /\ chat_message \in [chat_key : ChatKeys]
    /\ history = <<>>
    /\ clock = 2 * MaxTime
    /\ recent_chat_messages = <<>>
    /\ stack = << NewFrame(0, 0) >>
    /\ heap = <<>>
    /\ sends = <<>>
    /\ runs = <<>>
    /\ result = "running"
    /\ invocations = <<>>
    /\ failures = <<>>
    /\ trace = <<>>
    /\ raised = <<>>
    /\ \E other \in [chat_key : StoredChatKeys] :
         suspended = << [ stack |-> << NewFrame(0, 0) >>, chat_message |-> other,
                          result |-> "running", switches |-> 0 ] >>

\* The responses of concurrent calls hold at most MaxConcurrentActions actions.
ShortResponses ==
    \A p \in DOMAIN stack' : Len(stack'[p].ret_list) <= MaxConcurrentActions

ConcurrentNext == (Next /\ ShortResponses) \/ Switch

ConcurrentSpec == ConcurrentInit /\ [][ConcurrentNext]_vars

\* ================================================================ claims
Max == config.AI_SCRIPT_MAX_RETRY_TIMES

\* The positions of `msg` in the transport log.
Positions(msg) == {i \in DOMAIN sends : sends[i] = msg}

\* Where the terminal notice of failure record f sits in the transport log
\* (after the debug notification of the sandbox run, when there is one).
NoticeIndex(f) == f.sends + (IF config.DEBUG_IN_CHAT THEN 2 ELSE 1)

\* The invocation started for failure record f, if it has been entered.
StartedFor(f) ==
    {i \in DOMAIN invocations :
        invocations[i].parent = f.inv /\ invocations[i].parent_idx = f.idx}

\* The frame of failure record f is still awaiting the agent_run it called.
Awaiting(f) ==
    \E p \in DOMAIN stack :
        stack[p].inv = f.inv /\ stack[p].idx = f.idx /\ stack[p].pc = "await"

\* C1: every recursive invocation runs at its caller's depth plus one, no
\* invocation runs deeper than AI_SCRIPT_MAX_RETRY_TIMES, and a script that
\* fails at depth = maximum starts no invocation and gets the terminal
\* notice; so a chain from depth 0 holds at most `maximum` re-invocations.
C1_RetryDepthBounded ==
    /\ \A i \in DOMAIN invocations :
         LET v == invocations[i]
         IN  /\ v.retry_depth <= Max
             /\ v.parent = 0 => v.retry_depth = 0
             /\ v.parent # 0 =>
                  /\ v.parent < i
                  /\ v.retry_depth = invocations[v.parent].retry_depth + 1
    /\ \A p \in DOMAIN stack :
         /\ stack[p].retry_depth = p - 1
         /\ stack[p].retry_depth <= Max
    /\ Len(stack) <= Max + 1
    /\ \A k \in DOMAIN failures :
         LET f == failures[k]
         IN  f.retry_depth = Max =>
               /\ ~f.retried
               /\ StartedFor(f) = {}
               /\ ~Awaiting(f)
               /\ NoticeIndex(f) \in Positions(TerminalNotice)

\* C1 witness: a chain has reached the maximum depth (>= 1) and a script
\* failed there.
C1_Witness ==
    /\ Max >= 1
    /\ \E k \in DOMAIN failures :
         /\ failures[k].retry_depth = Max
         /\ invocations[failures[k].inv].parent # 0

\* C2 as stated: a failure at depth d is retried iff d + 1 < maximum.
C2_AsStated ==
    \A k \in DOMAIN failures :
        failures[k].retried <=> failures[k].retry_depth + 1 < Max

\* C2 amended: a failure at depth d starts a recursive invocation iff
\* d < maximum; a failure at depth = maximum starts none and gets the
\* terminal notice, and the notice is sent exactly once per such failure
\* (and never otherwise).
C2_RetryIffBelowMax ==
    /\ \A k \in DOMAIN failures :
         LET f == failures[k]
         IN  /\ f.retried <=> f.retry_depth < Max
             /\ f.retried <=> (Awaiting(f) \/ StartedFor(f) # {})
             /\ Cardinality(StartedFor(f)) <= 1
    /\ Positions(TerminalNotice) =
         {NoticeIndex(failures[k]) : k \in {j \in DOMAIN failures : ~failures[j].retried}}
    /\ Cardinality(Positions(TerminalNotice)) =
         Cardinality({j \in DOMAIN failures : ~failures[j].retried})

\* C2 witness: a script failed at depth = maximum - 1 and the invocation it
\* started has been entered; another failed at depth = maximum.
C2_Witness ==
    /\ \E k \in DOMAIN failures :
         /\ failures[k].retry_depth = Max - 1
         /\ StartedFor(failures[k]) # {}
    /\ \E k \in DOMAIN failures : failures[k].retry_depth = Max

ApiMax == config.AI_CHAT_LLM_API_MAX_RETRIES

\* The actions agent_exec_result began for invocation i.
EventsOf(i) == {k \in DOMAIN trace : trace[k].inv = i}

\* C3: when every model call of an invocation fails, exactly
\* AI_CHAT_LLM_API_MAX_RETRIES attempts are made, then one apology is sent
\* and SceneRuntimeError is raised, the apology first; that invocation
\* resolves nothing and executes no action.
C3_ApologyThenFatal ==
    /\ \A p \in DOMAIN stack : stack[p].attempts <= ApiMax
    /\ result # "SceneRuntimeError" => Positions(Apology) = {}
    /\ result = "SceneRuntimeError" =>
         /\ stack = <<>>
         /\ Len(raised) = 1
         /\ raised[1].pc = "run"
         /\ raised[1].attempts = ApiMax
         /\ raised[1].mr = NoResponse
         /\ raised[1].ret_list = <<>>
         /\ invocations[raised[1].inv].ret_list = <<>>
         /\ EventsOf(raised[1].inv) = {}
         /\ Positions(Apology) = {Len(sends)}

\* C3 witness: two attempts failed in a recursive invocation, which raised.
C3_Witness ==
    /\ result = "SceneRuntimeError"
    /\ ApiMax = 2
    /\ raised[1].retry_depth >= 1

\* C4: when the resolver rejects the response, the invocation ends with
\* ResolveError passed to its caller: it executes no action, runs no
\* script, appends nothing to the addition list and calls the model no more.
C4_ResolveErrorIsFatal ==
    result = "ResolveError" =>
        /\ stack = <<>>
        /\ Len(raised) = 1
        /\ raised[1].pc = "run"
        /\ raised[1].ret_list = <<>>
        /\ invocations[raised[1].inv].ret_list = <<>>
        /\ EventsOf(raised[1].inv) = {}
        /\ \A k \in DOMAIN failures : failures[k].inv # raised[1].inv
        /\ heap[raised[1].addition_prompt_message] = raised[1].prompt
        /\ Positions(Apology) = {}

\* C4 witness: the resolver rejected the response of a retry invocation,
\* after the first invocation had run a script.
C4_Witness ==
    /\ result = "ResolveError"
    /\ raised[1].retry_depth >= 1
    /\ runs # <<>>

\* C5: an action is executed only when the response it comes from echoes
\* the one-time code its own invocation drew on entry.
C5_OnlyOwnTokenExecutes ==
    /\ \A k \in DOMAIN trace :
         /\ invocations[trace[k].inv].echo = invocations[trace[k].inv].one_time_code
         /\ invocations[trace[k].inv].one_time_code \in Tokens
    /\ \A p \in DOMAIN stack :
         stack[p].pc \in {"exec", "await"} =>
           /\ stack[p].mr.wellFormed
           /\ stack[p].mr.echo = stack[p].one_time_code
           /\ stack[p].one_time_code = invocations[stack[p].inv].one_time_code

\* C5 witness: a retry invocation whose code differs from its caller's has
\* executed an action.
C5_Witness ==
    \E k \in DOMAIN trace :
        LET v == invocations[trace[k].inv]
        IN  /\ v.parent # 0
            /\ v.one_time_code # invocations[v.parent].one_time_code

\* C6 as stated: no two invocations of an exchange carry the same code.
C6_AsStated ==
    \A i, j \in DOMAIN invocations :
        i # j => invocations[i].one_time_code # invocations[j].one_time_code

\* C6 amended: every invocation, top-level or retry, draws a code of its
\* own on entry (a frame not yet entered carries none, an entered one holds
\* a drawn code in its scene store for its whole run); two invocations of a
\* chain draw independently, so their codes can coincide.
C6_CodeDrawnPerInvocation ==
    /\ \A i \in DOMAIN invocations : invocations[i].one_time_code \in Tokens
    /\ \A p \in DOMAIN stack :
         IF stack[p].pc = "enter"
         THEN stack[p].one_time_code = NoToken /\ stack[p].store_code = NoToken
         ELSE /\ stack[p].one_time_code = invocations[stack[p].inv].one_time_code
              /\ stack[p].store_code = stack[p].one_time_code

\* C6 witness: a retry invocation is running with a code different from its
\* caller's.
C6_Witness ==
    /\ Len(stack) >= 2
    /\ Top.pc # "enter"
    /\ Top.one_time_code # stack[Len(stack) - 1].one_time_code

\* The actions begun for invocation i, in the order they began.
EventsSeq(i) == SelectSeq(trace, LAMBDA e : e.inv = i)

\* C8: the actions of an invocation begin in the order of its ret_list, one
\* at a time: while the retry chain a failed script started is running its
\* caller begins nothing, and everything that chain executes lies between
\* the failed action and the caller's next one.
C8_ActionsInOrder ==
    /\ \A i \in DOMAIN invocations :
         LET ev == EventsSeq(i)
         IN  /\ Len(ev) <= Len(invocations[i].ret_list)
             /\ \A n \in DOMAIN ev :
                  /\ ev[n].idx = n
                  /\ ev[n].action = invocations[i].ret_list[n]
    /\ \A p \in DOMAIN stack :
         IF p < Len(stack)
         THEN /\ stack[p].pc = "await"
              /\ Len(EventsSeq(stack[p].inv)) = stack[p].idx
              /\ stack[p + 1].pc # "enter" =>
                   /\ invocations[stack[p + 1].inv].parent = stack[p].inv
                   /\ invocations[stack[p + 1].inv].parent_idx = stack[p].idx
         ELSE stack[p].pc = "exec" => Len(EventsSeq(stack[p].inv)) = stack[p].idx - 1
    /\ \A j \in DOMAIN invocations :
         invocations[j].parent # 0 =>
           \A k \in EventsOf(j) :
             /\ \E a \in EventsOf(invocations[j].parent) :
                  trace[a].idx = invocations[j].parent_idx /\ a < k
             /\ \A b \in EventsOf(invocations[j].parent) :
                  trace[b].idx > invocations[j].parent_idx => b > k

\* C8 witness: the first invocation went on to its second action after the
\* retry chain of its first one had executed an action.
C8_Witness ==
    \E a, k, b \in DOMAIN trace :
        /\ a < k /\ k < b
        /\ trace[a].inv = 1 /\ trace[a].idx = 1
        /\ trace[b].inv = 1 /\ trace[b].idx = 2
        /\ trace[a].action # trace[b].action
        /\ invocations[trace[k].inv].parent = 1

\* C9: executing a TEXT action makes exactly one call
\* send_agent_message(chat_key, content, record=True) and nothing else: no
\* sandbox run, no change of the addition list, no new invocation.
C9_TextActionOnlySends ==
    [][ (Executing /\ RetData(Top).type = "TEXT") =>
          /\ sends' = Append(sends,
                 [ fn |-> "send_agent_message", chat_key |-> chat_message.chat_key,
                   text |-> RetData(Top).content, record |-> "True" ])
          /\ runs' = runs
          /\ heap' = heap
          /\ failures' = failures
          /\ invocations' = invocations
          /\ result' = result
          /\ Len(stack') = Len(stack) ]_vars

\* C9 witness: the response was the single text action "Hello"; the
\* invocation returned after one recorded send and no sandbox run.
C9_Witness ==
    /\ result = "returned"
    /\ invocations[1].ret_list = << [type |-> "TEXT", content |-> "Hello"] >>
    /\ runs = <<>>
    /\ Cardinality({i \in DOMAIN sends : sends[i].fn = "send_agent_message"}) = 1
    /\ \E i \in DOMAIN sends :
         sends[i] = AgentMessage(chat_message.chat_key, "Hello", "True")

IsPrefix(a, b) == Len(a) <= Len(b) /\ a = SubSeq(b, 1, Len(a))

\* C10: the addition list of an exchange only grows: what it held at every
\* earlier failure and at every prompt is a prefix of what it holds now.
\* Only script failures change it, each appending the assistant entry with
\* the script and then the user entry with the error text, before the
\* invocation it starts builds its prompt from the extended list.
C10_AdditionAppendOnly ==
    /\ Len(heap) <= 1
    /\ heap = <<>> => failures = <<>>
    /\ heap # <<>> =>
         /\ Len(heap[1]) = 2 * Len(failures)
         /\ \A i \in DOMAIN invocations :
              /\ invocations[i].list = 1
              /\ IsPrefix(invocations[i].prompt, heap[1])
         /\ \A k \in DOMAIN failures :
              LET f == failures[k]
              IN  /\ f.list = 1
                  /\ f.before = SubSeq(heap[1], 1, 2 * (k - 1))
                  /\ heap[1][2 * k - 1] =
                       [role |-> "assistant", body |-> f.script, hint |-> "script"]
                  /\ heap[1][2 * k].role = "user"
                  /\ heap[1][2 * k].body =
                       (IF f.err_msg = "" THEN "No error message" ELSE f.err_msg)
                  /\ \A j \in StartedFor(f) :
                       /\ invocations[j].prompt = SubSeq(heap[1], 1, 2 * k)
                       /\ invocations[j].retry_depth = f.retry_depth + 1

\* C10 witness: with a maximum of 2, a failure at depth 0 grew the list by
\* two entries for the invocation at depth 1, whose own failure grew it to
\* four for the invocation at depth 2.
C10_Witness ==
    /\ Max = 2
    /\ Len(invocations) = 3
    /\ invocations[1].prompt = <<>>
    /\ invocations[2].retry_depth = 1 /\ Len(invocations[2].prompt) = 2
    /\ invocations[3].retry_depth = 2 /\ Len(invocations[3].prompt) = 4

ContextMax == config.AI_CHAT_CONTEXT_MAX_LENGTH

\* now - lookback, in half seconds.
SinceHalves == clock - 2 * config.AI_CHAT_CONTEXT_EXPIRE_SECONDS

WindowTime(i) == history[recent_chat_messages[i]].send_timestamp

\* The rows of the requested channel that are not older than now - lookback.
Qualifying ==
    {r \in DOMAIN history :
        /\ history[r].chat_key = chat_message.chat_key
        /\ 2 * history[r].send_timestamp >= SinceHalves}

\* The rows of the requested channel that are not older than
\* int(now - lookback), i.e. less than one second older than now - lookback.
QualifyingTruncated ==
    {r \in DOMAIN history :
        /\ history[r].chat_key = chat_message.chat_key
        /\ 2 * history[r].send_timestamp > SinceHalves - 2}

\* The window holds the `ContextMax` newest rows of Q, each once.
NewestOf(Q) ==
    /\ Range(recent_chat_messages) \subseteq Q
    /\ Len(recent_chat_messages) <= ContextMax
    /\ Len(recent_chat_messages) =
         (IF ContextMax < Cardinality(Q) THEN ContextMax ELSE Cardinality(Q))
    /\ Cardinality(Range(recent_chat_messages)) = Len(recent_chat_messages)
    /\ \A r \in Q \ Range(recent_chat_messages) :
         \A i \in DOMAIN recent_chat_messages : history[r].send_timestamp <= WindowTime(i)

\* C7 as stated: at most N turns of the channel, none older than
\* now - lookback, strictly ascending in time, the N newest such turns.
C7_AsStated ==
    result = "built" =>
        /\ NewestOf(Qualifying)
        /\ \A i, j \in DOMAIN recent_chat_messages : i < j => WindowTime(i) < WindowTime(j)

\* C7 amended: at most N turns of the channel, none older than
\* int(now - lookback), oldest first with turns of equal timestamp in either
\* order, the N newest such turns.
C7_ContextWindow ==
    result = "built" =>
        /\ NewestOf(QualifyingTruncated)
        /\ \A i, j \in DOMAIN recent_chat_messages : i < j => WindowTime(i) <= WindowTime(j)

\* C7 witness: a window of two turns at different times was cut from the
\* three turns of the channel within the look-back, the oldest left out.
C7_Witness ==
    /\ result = "built"
    /\ ContextMax = 2
    /\ Len(recent_chat_messages) = 2
    /\ WindowTime(1) < WindowTime(2)
    /\ Cardinality(QualifyingTruncated) = 3
    /\ \E r \in QualifyingTruncated : history[r].send_timestamp < WindowTime(1)

\* The two ways C7 as stated fails: a turn older than now - lookback by
\* less than a second is kept, and two kept turns carry the same timestamp.
C7_NoTruncatedBound ==
    result = "built" => Range(recent_chat_messages) \subseteq Qualifying
C7_NoEqualTimestamps ==
    result = "built" =>
        \A i, j \in DOMAIN recent_chat_messages : i < j => WindowTime(i) # WindowTime(j)

\* The user entry a failed script appended to its addition list: the second
\* of the two entries that follow what the list held before.
Feedback(f) == heap[f.list][Len(f.before) + 2]

\* C11 as stated: the feedback says "try again" exactly when the failure is
\* followed by a recursive invocation, and "give up" exactly when it is
\* followed by the terminal notice and no invocation.
C11_AsStated ==
    \A k \in DOMAIN failures :
        LET f == failures[k]
        IN  /\ Feedback(f).hint = "try again" <=> f.retried
            /\ Feedback(f).hint = "give up" <=> ~f.retried

\* C11 amended: the feedback of a failure at depth d says "try again"
\* exactly when d < maximum - 1, that is when the invocation this failure
\* starts could itself be retried, and "give up" otherwise.  So "try again"
\* is always followed by a recursive invocation and the terminal notice
\* always comes with "give up", but the failure at depth maximum - 1 is told
\* to give up and is still followed by one last invocation.
C11_FeedbackPhrase ==
    \A k \in DOMAIN failures :
        LET f == failures[k]
        IN  /\ Feedback(f).role = "user"
            /\ Feedback(f).hint \in {"try again", "give up"}
            /\ Feedback(f).hint = "try again" <=> f.retry_depth < Max - 1
            /\ Feedback(f).hint = "try again" => f.retried
            /\ ~f.retried => Feedback(f).hint = "give up"
            /\ (f.retried /\ Feedback(f).hint = "give up") <=> f.retry_depth = Max - 1

\* C11 witness: with a maximum of 2, the failure at depth 0 was told to try
\* again, and the failure at depth 1 was told to give up and has started the
\* invocation at depth 2.
C11_Witness ==
    /\ Max = 2
    /\ \E k \in DOMAIN failures :
         /\ failures[k].retry_depth = 0
         /\ Feedback(failures[k]).hint = "try again"
    /\ \E k \in DOMAIN failures :
         /\ failures[k].retry_depth = 1
         /\ Feedback(failures[k]).hint = "give up"
         /\ \E j \in StartedFor(failures[k]) : invocations[j].retry_depth = 2

\* How a run of the first invocation can have ended.
Fatal == {"SceneRuntimeError", "ResolveError"}

\* C12 as stated: a failed script raises nothing, the failure that finds the
\* budget used up gets the terminal notice and its invocation goes on, and
\* so a run in which no model call and no resolution failed does not end
\* with an error, however many scripts failed.
C12_AsStated ==
    /\ \A k \in DOMAIN failures :
         ~failures[k].retried => NoticeIndex(failures[k]) \in Positions(TerminalNotice)
    /\ result \in {"running", "returned"} \cup Fatal

\* C12, the part about agent_exec_result alone: every error a run ends with
\* was raised by the statements of agent_run between the model call and the
\* action loop, none by the execution of an action; the failure that finds
\* the budget used up gets the terminal notice.
C12_ScriptErrorsContained ==
    /\ \A k \in DOMAIN failures :
         ~failures[k].retried => NoticeIndex(failures[k]) \in Positions(TerminalNotice)
    /\ result \in {"running", "returned"} <=> raised = <<>>
    /\ raised # <<>> =>
         /\ Len(raised) = 1
         /\ raised[1].pc = "run"
         /\ \A k \in DOMAIN trace : trace[k].inv # raised[1].inv

\* The actions begun for invocation i, in the order they began.
ActionsOf(i) == [n \in 1..Len(EventsSeq(i)) |-> EventsSeq(i)[n].action]

\* The frame raised after its response had resolved: a call of mr.save failed.
SaveFailedIn(f) == ResolveAccepts(f.mr, f.store_code)

\* C13 as stated: when a persistence step fails after a successful model
\* call and resolution, the invocation is not aborted, and it executes
\* every action of the resolved response, in order.
C13_AsStated ==
    \A k \in DOMAIN raised :
        SaveFailedIn(raised[k]) =>
            /\ result # "OSError"
            /\ stack = <<>> => ActionsOf(raised[k].inv) = raised[k].ret_list

\* C13, what the code does: the error of mr.save leaves agent_run and every
\* enclosing invocation; the invocation executes none of the actions of the
\* response it had resolved.
C13_SaveFailureAborts ==
    result = "OSError" =>
        /\ stack = <<>>
        /\ Len(raised) = 1
        /\ SaveFailedIn(raised[1])
        /\ EventsOf(raised[1].inv) = {}
        /\ heap[raised[1].addition_prompt_message] = raised[1].prompt

\* C13: mr.save failed in a retry invocation whose response held two actions.
C13_SaveFailureReached ==
    /\ result = "OSError"
    /\ raised[1].retry_depth >= 1
    /\ Len(raised[1].ret_list) = 2

\* The most steps an invocation at depth d takes from its entry to its
\* return: the entry, at most ApiMax model calls, the resolution, at most
\* MaxActions actions, each with the invocation it starts when the depth
\* allows one, and the return.
RECURSIVE Work(_)
Work(d) == ApiMax + 3 + MaxActions * (1 + (IF d < Max THEN Work(d + 1) ELSE 0))

\* The most steps frame f still takes by itself and through the invocations
\* its remaining actions start.
Remaining(f) ==
    LET perAction == 1 + (IF f.retry_depth < Max THEN Work(f.retry_depth + 1) ELSE 0)
    IN  CASE f.pc = "enter" -> Work(f.retry_depth)
          [] f.pc = "run"   -> (ApiMax - f.attempts) + 2 + MaxActions * perAction
          [] f.pc = "exec"  -> (Len(f.ret_list) - f.idx + 1) * perAction + 1
          [] f.pc = "await" -> (Len(f.ret_list) - f.idx) * perAction + 1

RECURSIVE RemainingUpTo(_)
RemainingUpTo(p) == IF p = 0 THEN 0 ELSE Remaining(stack[p]) + RemainingUpTo(p - 1)

\* The variant of the run: the steps the frames of the call stack still take.
Variant == RemainingUpTo(Len(stack))

\* C14: every run of the first invocation ends, by returning or by raising:
\* every step lowers a natural number that starts at Work(0), whatever the
\* maximum depth (0 included) and whichever scripts fail, so at most Work(0)
\* steps and invocations happen; and since no collaborator call hangs, the
\* run does reach its end.
C14_Terminates ==
    /\ [][Variant' < Variant]_vars
    /\ [](Variant >= 0 /\ Variant + Len(invocations) <= Work(0))
    /\ [](stack = <<>> <=> result # "running")
    /\ <>(result # "running")

\* C14 witness: with a maximum of 1 the run returned after a script failed at
\* depth 0 and the script of the invocation it started failed too.
C14_Witness ==
    /\ result = "returned"
    /\ Max = 1
    /\ \E k \in DOMAIN failures : ~failures[k].retried

\* Invocation j is still running or awaiting.
OnStack(j) == \E p \in DOMAIN stack : stack[p].inv = j

\* The invocations of the chain that failure record f started.
RECURSIVE ChainOf(_, _)
ChainOf(f, n) ==
    IF n = 0 THEN StartedFor(f)
    ELSE LET below == ChainOf(f, n - 1)
         IN  below \cup {j \in DOMAIN invocations : invocations[j].parent \in below}

\* The chain of failure record f ended with the terminal notice: a script
\* failed in it with the retries used up.
Exhausted(f) ==
    \E k \in DOMAIN failures :
        /\ failures[k].inv \in ChainOf(f, Max)
        /\ ~failures[k].retried

\* C15: every action of a response is executed at the depth d of the
\* invocation that resolved it, whatever the chains of the earlier actions
\* did: each failing script of the response is retried iff d < maximum, by
\* an invocation of its own at depth d + 1; and once the chain of an action
\* has returned, exhausted or not, the invocation is at its next action.
C15_IndependentChains ==
    /\ \A k \in DOMAIN failures :
         LET f == failures[k]
         IN  /\ f.retry_depth = invocations[f.inv].retry_depth
             /\ f.retried <=> invocations[f.inv].retry_depth < Max
             /\ \A j \in StartedFor(f) :
                  /\ invocations[j].retry_depth = invocations[f.inv].retry_depth + 1
                  /\ ~OnStack(j) /\ OnStack(f.inv) =>
                       \E p \in DOMAIN stack :
                           /\ stack[p].inv = f.inv
                           /\ stack[p].idx > f.idx
                           /\ stack[p].retry_depth = f.retry_depth
    /\ \A k1, k2 \in DOMAIN failures :
         (k1 < k2 /\ failures[k1].inv = failures[k2].inv) =>
             /\ failures[k1].idx < failures[k2].idx
             /\ failures[k1].retry_depth = failures[k2].retry_depth
             /\ failures[k1].retried = failures[k2].retried
             /\ StartedFor(failures[k1]) \cap StartedFor(failures[k2]) = {}

\* C15 witness: with a maximum of 1, the chain of the first script of the
\* response ended with the terminal notice; the second script of the same
\* response failed too and has started its own invocation at depth 1.
C15_Witness ==
    /\ Max = 1
    /\ \E k1, k2 \in DOMAIN failures :
         /\ failures[k1].inv = 1 /\ failures[k1].idx = 1
         /\ Exhausted(failures[k1])
         /\ failures[k2].inv = 1 /\ failures[k2].idx = 2
         /\ failures[k2].retried
         /\ \E j \in StartedFor(failures[k2]) : invocations[j].retry_depth = 1

\* The frame that is running in the next state, when the call stack is as
\* deep as it is now.
SameFrameNext == Len(stack') = Len(stack) /\ stack' # <<>>

\* A step in which the running invocation makes a model call that fails and
\* stays in its loop.
AttemptFailed ==
    /\ Calling /\ SameFrameNext
    /\ stack'[Len(stack)].pc = "run"
    /\ stack' # stack

\* A step in which the running invocation leaves its model-call loop.
LoopLeft == Calling /\ stack' # stack /\ ~AttemptFailed

\* A step of LoopLeft taken because a model call returned a response: the
\* call number Top.attempts + 1 of the invocation, after Top.attempts
\* failed ones.
FirstSuccess == LoopLeft /\ result' # "SceneRuntimeError"

\* C16 as stated: once a model call succeeds, on attempt k <= maximum, no
\* apology is sent and no fatal error is raised.
C16_AsStated ==
    [][ FirstSuccess =>
          /\ Top.attempts + 1 <= ApiMax
          /\ sends' = sends
          /\ result' \notin Fatal ]_vars

\* C16 amended: the model-call loop of an invocation counts its failed
\* attempts from 0 and never makes more than the maximum; it is left either
\* after `maximum` failures, with the apology and SceneRuntimeError, or at
\* the first success, on attempt k <= maximum, with no further attempt, no
\* apology and no SceneRuntimeError, the response of attempt k being the one
\* handed to the resolver: it is resolved and its actions are the ones the
\* invocation executes, unless the resolver rejects it or mr.save fails,
\* which raise their own errors.  No frame comes back to the loop, and an
\* invocation of a retry chain starts its own count at 0.
C16_LoopStopsAtFirstSuccess ==
    /\ [](\A p \in DOMAIN stack :
            /\ stack[p].attempts <= ApiMax
            /\ stack[p].pc # "run" => stack[p].attempts = 0)
    /\ [](result \in {"ResolveError", "OSError"} =>
            /\ raised[1].attempts < ApiMax
            /\ Positions(Apology) = {})
    /\ [][ AttemptFailed =>
             /\ stack'[Len(stack)] = [Top EXCEPT !.attempts = @ + 1]
             /\ Top.attempts < ApiMax
             /\ sends' = sends /\ result' = result ]_vars
    /\ [][ LoopLeft =>
             \/ /\ Top.attempts = ApiMax
                /\ result' = "SceneRuntimeError"
                /\ sends' = Append(sends, Apology)
             \/ /\ Top.attempts + 1 <= ApiMax
                /\ sends' = sends
                /\ \/ /\ result' = result
                      /\ SameFrameNext
                      /\ stack'[Len(stack)].pc = "exec"
                      /\ ResolveAccepts(stack'[Len(stack)].mr, Top.store_code)
                      /\ stack'[Len(stack)].ret_list = stack'[Len(stack)].mr.ret_list
                      /\ invocations'[Top.inv].ret_list = stack'[Len(stack)].mr.ret_list
                   \/ result' \in {"ResolveError", "OSError"} ]_vars
    /\ [][ \A p \in DOMAIN stack' :
             stack'[p].pc = "run" =>
                 \/ p \in DOMAIN stack /\ stack[p].pc = "run" /\ stack[p].inv = stack'[p].inv
                 \/ p = Len(stack) /\ Top.pc = "enter" /\ stack'[p].attempts = 0 ]_vars

\* C16 witness: with a maximum of 2, the first model call of a retry
\* invocation failed and its second one returned a response, which was
\* resolved (mr.save then failed); no apology was sent.
C16_Witness ==
    /\ ApiMax = 2
    /\ result = "OSError"
    /\ raised[1].retry_depth >= 1
    /\ raised[1].attempts = 1
    /\ SaveFailedIn(raised[1])
    /\ Positions(Apology) = {}

\* The invocations enclosing invocation i: its caller, its caller's caller...
RECURSIVE Enclosing(_)
Enclosing(i) ==
    IF invocations[i].parent = 0 THEN {}
    ELSE {invocations[i].parent} \cup Enclosing(invocations[i].parent)

\* The invocation of Enclosing(i) \cup {i} that invocation a called.
CalledBy(a, i) == CHOOSE j \in Enclosing(i) \cup {i} : invocations[j].parent = a

\* C17: a fatal error raised at any depth leaves every enclosing invocation:
\* each of them stops at the action whose retry chain raised, and from then
\* on nothing is executed, sent or started; at most one apology is ever sent.
C17_FatalPropagates ==
    /\ [](Cardinality(Positions(Apology)) <= 1)
    /\ [](result \in Fatal =>
            /\ stack = <<>>
            /\ Len(raised) = 1
            /\ raised[1].inv = Len(invocations)
            /\ raised[1].retry_depth = Cardinality(Enclosing(raised[1].inv))
            /\ \A a \in Enclosing(raised[1].inv) :
                 LET c == CalledBy(a, raised[1].inv)
                 IN  /\ Len(EventsSeq(a)) = invocations[c].parent_idx
                     /\ \E k \in DOMAIN failures :
                          /\ failures[k].inv = a
                          /\ failures[k].idx = invocations[c].parent_idx
                          /\ failures[k].retried)
    /\ [][ (result \in Fatal) =>
             /\ sends' = sends /\ runs' = runs /\ trace' = trace
             /\ invocations' = invocations /\ failures' = failures
             /\ heap' = heap /\ result' = result ]_vars

\* C17 witness: with a maximum of 2 the invocation at depth 2 raised; the
\* first invocation had a second action left, which was not executed.
C17_Witness ==
    /\ Max = 2
    /\ result \in Fatal
    /\ raised[1].retry_depth = 2
    /\ Len(invocations[1].ret_list) = 2
    /\ Len(EventsSeq(1)) = 1

\* The list object the first invocation works on.
ExchangeList == invocations[1].list

\* C18: every invocation of the exchange holds the same list object, the
\* one the first invocation created; so what a script failure appends stays
\* in it when the chain it started has returned, and the prompt of the
\* invocation started by failure number k holds the two entries of each of
\* the failures 1..k of the exchange, wherever in the exchange they
\* happened, in the order they happened.
C18_OneSharedList ==
    /\ \A i \in DOMAIN invocations : invocations[i].list = ExchangeList
    /\ \A p \in DOMAIN stack :
         stack[p].pc # "enter" => stack[p].addition_prompt_message = ExchangeList
    /\ \A p \in DOMAIN stack :
         (stack[p].pc = "enter" /\ p > 1) =>
             /\ stack[p].addition_prompt_message = ExchangeList
             /\ heap[ExchangeList] # <<>>
    /\ \A k \in DOMAIN failures :
         /\ failures[k].list = ExchangeList
         /\ \A j \in StartedFor(failures[k]) :
              /\ Len(invocations[j].prompt) = 2 * k
              /\ \A n \in 1..k :
                   /\ invocations[j].prompt[2 * n - 1] = AiMessage(failures[n].script)
                   /\ invocations[j].prompt[2 * n] =
                        UserMessage(failures[n].err_msg, failures[n].retry_depth)

\* C18 witness: the first script of the response failed and so did the
\* script of the invocation that retried it, which has returned; the second
\* script of the response failed too, and the prompt of the invocation it
\* started holds the entries of all three failures.
C18_Witness ==
    \E k \in DOMAIN failures :
        /\ k = 3
        /\ failures[1].inv = 1 /\ failures[1].idx = 1
        /\ failures[2].inv \in StartedFor(failures[1])
        /\ failures[3].inv = 1 /\ failures[3].idx = 2
        /\ failures[2].err_msg # failures[3].err_msg
        /\ \E j \in StartedFor(failures[3]) : Len(invocations[j].prompt) = 6

\* C20: the slice [-N:] that follows the reversal changes nothing: for every
\* table, clock and N >= 0 (N = 0 included, where the query returns no row
\* and [-0:] keeps the whole, empty, list) the window built by query,
\* reversal and slice is the reversal of a result of the limited query (its
\* own reversal is such a result), and the slice applied to it once more
\* gives it back.
C20_TrailingLimitRedundant ==
    result = "built" =>
        /\ IsQueryResult(Reversed(recent_chat_messages), ContextMax)
        /\ Len(recent_chat_messages) <= ContextMax
        /\ LastN(recent_chat_messages, ContextMax) = recent_chat_messages

\* C20 witness: the limit cut the query: a window of N = 2 turns was built
\* from a table holding three turns of the channel within the look-back.
C20_Witness ==
    /\ result = "built"
    /\ ContextMax = 2
    /\ Cardinality(Filtered) = 3
    /\ Len(recent_chat_messages) = 2

\* C20, the case N = 0: the table holds turns of the channel within the
\* look-back and the window built is empty.
C20_ZeroLimitReached ==
    /\ result = "built"
    /\ ContextMax = 0
    /\ Filtered # {}
    /\ recent_chat_messages = <<>>

\* The first invocation of the exchange invocation i belongs to: the call a
\* handler made.
Root(i) == CHOOSE r \in Enclosing(i) \cup {i} : invocations[r].parent = 0

\* The failures of the exchange of invocation j that happened before j was
\* entered.
OwnFailuresBefore(j) ==
    SelectSeq(failures, LAMBDA f : Root(f.inv) = Root(j) /\ f.invocations < j)

\* The frames of every task, running or suspended.
AllFrames ==
    {stack[p] : p \in DOMAIN stack} \cup
    UNION {{suspended[t].stack[p] : p \in DOMAIN suspended[t].stack} : t \in DOMAIN suspended}

\* C19: two concurrent calls of agent_run are isolated under every
\* interleaving.  Each exchange has a list object of its own, and the prompt
\* of an invocation holds the entries of the earlier failures of its own
\* exchange and nothing else; the depth of an invocation is the number of
\* invocations enclosing it in its own call chain, and its failures are
\* retried by that depth alone; every frame, running or suspended, holds the
\* code and the list its own invocation got on entry.
C19_ConcurrentIsolation ==
    /\ \A i, j \in DOMAIN invocations :
         invocations[i].list = invocations[j].list <=> Root(i) = Root(j)
    /\ \A j \in DOMAIN invocations :
         LET own == OwnFailuresBefore(j)
         IN  /\ Len(invocations[j].prompt) = 2 * Len(own)
             /\ \A n \in DOMAIN own :
                  /\ invocations[j].prompt[2 * n - 1] = AiMessage(own[n].script)
                  /\ invocations[j].prompt[2 * n] =
                       UserMessage(own[n].err_msg, own[n].retry_depth)
             /\ invocations[j].retry_depth = Cardinality(Enclosing(j))
    /\ \A k \in DOMAIN failures :
         LET f == failures[k]
         IN  /\ f.retry_depth = Cardinality(Enclosing(f.inv))
             /\ f.retried <=> Cardinality(Enclosing(f.inv)) < Max
             /\ f.list = invocations[Root(f.inv)].list
             /\ f.before = SubSeq(heap[f.list], 1, Len(f.before))
             /\ Len(f.before) =
                  2 * Cardinality({n \in 1..(k - 1) : Root(failures[n].inv) = Root(f.inv)})
    /\ \A fr \in AllFrames :
         fr.pc # "enter" =>
             /\ fr.one_time_code = invocations[fr.inv].one_time_code
             /\ fr.store_code = invocations[fr.inv].one_time_code
             /\ fr.addition_prompt_message = invocations[Root(fr.inv)].list
             /\ fr.retry_depth = Cardinality(Enclosing(fr.inv))

\* C19 witness: two calls for the same channel; a script of each failed, and
\* the retry invocation of the call whose script failed first was entered
\* after both failures: its prompt holds the two entries of its own failure.
C19_Witness ==
    /\ suspended # <<>>
    /\ suspended[1].chat_message = chat_message
    /\ Len(failures) >= 2
    /\ Root(failures[1].inv) # Root(failures[2].inv)
    /\ \E j \in StartedFor(failures[1]) :
         /\ failures[2].invocations < j
         /\ Len(invocations[j].prompt) = 2
         /\ Len(heap[invocations[j].list]) = 2

====
